---- MODULE Spec2Model ----
\* Verification model of the backup / restore service (BackupService) of the
\* Discord bot: full and critical snapshots of the Supabase tables, the
\* retention pass, snapshot validation and restore with its safety-net backup.
EXTENDS Integers, Sequences, FiniteSets, TLC

\* ---------------------------------------------------------------- bounds
NumTables == 2      \* how many of the BACKUP_TABLES names the model carries
MaxId == 1          \* row identifiers are 0..MaxId
MaxVal == 1         \* row payloads are 1..MaxVal
MaxClock == 1       \* the wall clock (whole seconds) runs over 0..MaxClock
MaxFaults == 1      \* failing store / file operations per behaviour
MaxEdits == 2       \* changes made to a snapshot file from outside the service

\* ------------------------------------------------------------- constants
AllBackupTables ==
  <<"conversation_histories", "api_usage", "bot_settings", "api_logs",
    "system_logs", "env_variables", "bot_status">>

AllCriticalTables == {"conversation_histories", "bot_settings", "env_variables"}

BACKUP_TABLES == SubSeq(AllBackupTables, 1, NumTables)

CRITICAL_TABLES == SelectSeq(BACKUP_TABLES, LAMBDA t : t \in AllCriticalTables)

\* config.maxBackupCount: 10 by default, set through initialize(config).
maxBackupCount == 1

version == "1.0"

Range(s) == {s[i] : i \in 1..Len(s)}

Tables == Range(BACKUP_TABLES)

Ids == 0..MaxId

Vals == 1..MaxVal

Row == [id : Ids, v : Vals]

\* A table of the store: its rows in the order select('*') returns them; the
\* identifier column is unique (it is the onConflict key of the upsert).
RowIds(rows) == {rows[i].id : i \in 1..Len(rows)}

TableStates ==
  {rows \in UNION {[1..n -> Row] : n \in 0..(MaxId + 1)} :
     \A i, j \in 1..Len(rows) : rows[i].id = rows[j].id => i = j}

\* The rows every table held when the snapshot found in the backup directory
\* was built: one row, of the highest identifier.
InitRows == <<[id |-> MaxId, v |-> 1]>>

Undefined == "undefined"

NoPath == [kind |-> "none", ts |-> 0]

\* ------------------------------------------------------- pure operators
\* JSON.stringify of a select result: null serializes as "null", an array as
\* the array text.
JSONstringify(d) == IF d.isNull THEN <<"null", <<>>>> ELSE <<"array", d.rows>>

Arr(rows) == [isNull |-> FALSE, rows |-> rows]

Null == [isNull |-> TRUE, rows |-> <<>>]

\* data || []
OrEmpty(d) == IF d.isNull THEN <<>> ELSE d.rows

\* createHash('sha256').update(text).digest('hex'), taken as injective.
Sha256(text) == <<"sha256", text>>

\* new Date().toISOString().replace(/:/g, '-').replace(/\..+/, '')
FormatTimestamp(sec) == [sec |-> sec, fmt |-> "dashed"]

\* new Date(ts).getTime(): the dashed form is not a date string V8 parses.
NaN == -1

DateGetTime(ts) == IF ts.fmt = "iso" THEN ts.sec * 1000 ELSE NaN

\* `backup_${timestamp}.json` / `critical_backup_${timestamp}.json`
FileName(kind, ts) ==
  [kind |-> IF kind = "full" THEN "backup" ELSE "critical_backup", ts |-> ts.sec]

\* JSON.stringify(backupData, null, 2) followed by JSON.parse: keys whose
\* value is undefined are dropped.
JSONroundtrip(bd) ==
  [metadata |->
     [timestamp |-> bd.metadata.timestamp,
      version |-> bd.metadata.version,
      tables |-> bd.metadata.tables,
      recordCount |-> bd.metadata.recordCount,
      checksums |-> bd.metadata.checksums,
      description |-> IF bd.metadata.description = Undefined
                        THEN "absent" ELSE bd.metadata.description],
   data |-> bd.data]

Put(f, k, val) == [x \in (DOMAIN f) \cup {k} |-> IF x = k THEN val ELSE f[x]]

EmptyMap == [x \in {} |-> 0]

\* obj.k is not undefined.
Has(f, k) == k \in DOMAIN f

\* ----------------------------------------------------------------- state
VARIABLES
  store,      \* table name -> rows
  files,      \* backup directory: file name -> parsed content
  clock,      \* wall clock, whole seconds
  pc,         \* position of the service call in progress
  bk,         \* the backup under construction
  rs,         \* the restore in progress
  result,     \* value returned by the call that finished last
  oplog,      \* store and file operations issued by the current call
  lastUpsert, \* per table: the rows upserted last and how often in a row (up to 2),
              \* while nothing else has touched the table
  calls,      \* service calls started so far: a behaviour of Spec holds one call,
              \* started from the directory an earlier build left; SpecTwice adds
              \* the repetition of a restore
  writes,     \* writes by other clients (to the store, or to a snapshot file) since
              \* the snapshot in the directory was built
  faults,     \* store / file operations that have failed so far
  logConfig,  \* LogService.config
  script,     \* the restore command (scripts/restore.ts): position, arguments, answers
  bot,        \* the bot process: time of day, hourly check, backups in progress
  twin        \* the same restoreFromBackup call on the snapshot with the other
              \* metadata.version, from the same store, with the same outcomes

vars == <<store, files, clock, pc, bk, rs, result, oplog, lastUpsert, calls, writes, faults,
          logConfig, script, bot, twin>>

\* What an operation of BackupService leaves alone outside the service.
callers == <<logConfig, script, bot, twin>>

NoJob == [kind |-> "none"]

NoResult == [op |-> "none"]

NoUpsert == [n |-> 0, rows |-> <<>>]

NoScript == [pc |-> "none"]

NoTwin == [active |-> FALSE]

NoBot == [check |-> "none"]

\* LogService.config as the bot sets it (and as it is by default).
DefaultLogConfig == [enableDatabase |-> TRUE]

\* --------------------------------------------------------- environment
Tick ==
  /\ pc = "idle"
  /\ calls = 0
  /\ clock < MaxClock
  /\ clock' = clock + 1
  /\ result' = NoResult
  /\ oplog' = <<>>
  /\ UNCHANGED <<store, files, pc, bk, rs, lastUpsert, calls, writes, faults>>
  /\ UNCHANGED callers

RemoveAt(s, i) == SubSeq(s, 1, i - 1) \o SubSeq(s, i + 1, Len(s))

\* Another client of the store inserts, updates or deletes one row.
ExternalWrite ==
  /\ pc = "idle"
  /\ calls = 0
  /\ writes = 0
  /\ \E t \in Tables :
       /\ \/ \E r \in Row :
               /\ r.id \notin RowIds(store[t])
               /\ store' = [store EXCEPT ![t] = Append(@, r)]
          \/ \E i \in 1..Len(store[t]), val \in Vals :
               /\ val # store[t][i].v
               /\ store' = [store EXCEPT ![t][i].v = val]
          \/ \E i \in 1..Len(store[t]) :
               store' = [store EXCEPT ![t] = RemoveAt(@, i)]
       /\ lastUpsert' = [lastUpsert EXCEPT ![t] = NoUpsert]
  /\ writes' = writes + 1
  /\ result' = NoResult
  /\ oplog' = <<>>
  /\ UNCHANGED <<files, clock, pc, bk, rs, calls, faults>>
  /\ UNCHANGED callers

\* An operation of the store or the file system ends with outcome out; every
\* outcome but "ok" is a failure of the environment.
Outcome(out) ==
  IF out = "ok"
    THEN faults' = faults
    ELSE faults < MaxFaults /\ faults' = faults + 1

\* ------------------------------------------------------ snapshot builder
Log(entries) == oplog' = oplog \o entries

\* LogService.<level>('database', ...): with logLevel 'info' an entry of level
\* info or above is inserted into system_logs when enableDatabase is set;
\* LogService swallows a failure of that insert.
LogTable == AllBackupTables[5]

LogService(level) ==
  IF level = "debug" \/ ~logConfig.enableDatabase
    THEN <<>>
    ELSE <<[op |-> "insert", arg |-> LogTable, out |-> "ok"]>>

\* The entries logged while a raised build unwinds: the catch of the build,
\* then the catch of restoreFromBackup when that is the caller.
ThrowLogs(caller) ==
  LogService("error") \o (IF caller = "restore" THEN LogService("error") ELSE <<>>)

BackupOp(kind) == IF kind = "full" THEN "createFullBackup" ELSE "createCriticalBackup"

\* The backupData object a build starts from.
NewBackup(kind, description, caller, now) ==
  [kind |-> kind,
   timestamp |-> FormatTimestamp(now),
   tables |-> IF kind = "full" THEN BACKUP_TABLES ELSE CRITICAL_TABLES,
   i |-> 1,
   recordCount |-> EmptyMap,
   checksums |-> EmptyMap,
   data |-> EmptyMap,
   description |-> description,
   caller |-> caller]

BackupData(b) ==
  [metadata |->
     [timestamp |-> b.timestamp,
      version |-> version,
      tables |-> b.tables,
      recordCount |-> b.recordCount,
      checksums |-> b.checksums,
      description |-> b.description],
   data |-> b.data]

\* One iteration of the export loop, on a select that returned rows or null.
ExportTable(b, t, d) ==
  [b EXCEPT !.data = Put(@, t, OrEmpty(d)),
            !.recordCount = Put(@, t, Len(OrEmpty(d))),
            !.checksums = Put(@, t, Sha256(JSONstringify(d))),
            !.i = @ + 1]

AfterExport(b) == IF b.i > Len(b.tables) THEN "bk_write" ELSE "bk_export"

\* A build at time 0 over the rows of InitRows whose select on table t ended
\* with outs[t], none of them raising.
RECURSIVE BuildLoop(_, _)
BuildLoop(b, outs) ==
  IF b.i > Len(b.tables) THEN b
  ELSE LET t == b.tables[b.i]
       IN BuildLoop(IF outs[t] = "error"
                      THEN [b EXCEPT !.i = @ + 1]
                      ELSE ExportTable(b, t, IF outs[t] = "null" THEN Null ELSE Arr(InitRows)),
                    outs)

FaultsOf(outs) == Cardinality({t \in DOMAIN outs : outs[t] # "ok"})

\* The backup directory at the start: empty, or holding the one snapshot file
\* an earlier createFullBackup or createCriticalBackup wrote at time 0.
InitDirs ==
  {[files |-> EmptyMap, faults |-> 0]}
  \cup
  UNION {
    {[files |-> (FileName(kind, FormatTimestamp(0)) :>
                   JSONroundtrip(BackupData(BuildLoop(
                     NewBackup(kind, IF kind = "full" THEN Undefined ELSE "critical-only",
                               "top", 0), outs)))),
      faults |-> FaultsOf(outs)] :
       outs \in {o \in [Range(IF kind = "full" THEN BACKUP_TABLES ELSE CRITICAL_TABLES)
                          -> {"ok", "null", "error"}] : FaultsOf(o) <= MaxFaults}} :
    kind \in {"full", "critical"}}

Init ==
  /\ store = [t \in Tables |-> InitRows]
  /\ clock = 0
  /\ \E d \in InitDirs : files = d.files /\ faults = d.faults
  /\ pc = "idle"
  /\ bk = NoJob
  /\ rs = NoJob
  /\ result = NoResult
  /\ oplog = <<>>
  /\ lastUpsert = [t \in Tables |-> NoUpsert]
  /\ calls = 0
  /\ writes = 0
  /\ logConfig = DefaultLogConfig
  /\ script = NoScript
  /\ bot = NoBot
  /\ twin = NoTwin

\* The build returns filePath to its caller: the operator, or restoreFromBackup.
ReturnFromBackup(p) ==
  /\ bk' = NoJob
  /\ IF bk.caller = "restore"
       THEN /\ rs' = [rs EXCEPT !.preRestoreBackupPath = p]
            /\ pc' = "rs_loop"
            /\ result' = result
       ELSE /\ rs' = rs
            /\ pc' = "idle"
            /\ result' = [op |-> BackupOp(bk.kind), status |-> "returned", path |-> p]

ThrowFromBackup_Swallowed ==
  /\ bk' = NoJob
  /\ IF bk.caller = "restore"
       THEN /\ rs' = rs
            /\ pc' = "rs_loop"
            /\ result' = result
       ELSE /\ rs' = NoJob
            /\ pc' = "idle"
            /\ result' = [op |-> BackupOp(bk.kind), status |-> "threw"]

FatalResult_AsReport ==
  [op |-> "restoreFromBackup", status |-> "returned", success |-> FALSE, fatal |-> FALSE]

\* The result the outer catch of restoreFromBackup returns (lines 339-345):
\* success false and details holding error and timestamp, with no errors map
\* and no counters; fatal marks that shape.
FatalResult ==
  [op |-> "restoreFromBackup", status |-> "returned", success |-> FALSE, fatal |-> TRUE]

\* The build rethrows; restoreFromBackup catches and returns its error result.
ThrowFromBackup ==
  /\ bk' = NoJob
  /\ rs' = NoJob
  /\ pc' = "idle"
  /\ result' = IF bk.caller = "restore"
                 THEN FatalResult
                 ELSE [op |-> BackupOp(bk.kind), status |-> "threw"]

StartBackup(kind) ==
  /\ pc = "idle"
  /\ calls = 0
  /\ calls' = calls + 1
  /\ bk' = NewBackup(kind, IF kind = "full" THEN Undefined ELSE "critical-only", "top", clock)
  /\ pc' = AfterExport(bk')
  /\ result' = NoResult
  /\ oplog' = LogService("info")
  /\ UNCHANGED <<store, files, clock, rs, lastUpsert, writes, faults>>
  /\ UNCHANGED callers

createFullBackup == StartBackup("full")

createCriticalBackup == StartBackup("critical")

SelectOutcomes == {"ok", "null", "error", "throw"}

BackupExport ==
  /\ pc = "bk_export"
  /\ LET t == bk.tables[bk.i] IN
     \E out \in SelectOutcomes :
       /\ Outcome(out)
       /\ Log(<<[op |-> "select", arg |-> t, out |-> out]>>
                \o (CASE out = "throw" -> ThrowLogs(bk.caller)
                      [] out = "error" -> LogService("error")
                      [] OTHER -> LogService("debug")))
       /\ CASE out = "throw" -> ThrowFromBackup
            [] out = "error" ->
                 /\ bk' = [bk EXCEPT !.i = @ + 1]
                 /\ pc' = AfterExport(bk')
                 /\ UNCHANGED <<rs, result>>
            [] OTHER ->
                 /\ bk' = ExportTable(bk, t, IF out = "null" THEN Null ELSE Arr(store[t]))
                 /\ pc' = AfterExport(bk')
                 /\ UNCHANGED <<rs, result>>
  /\ UNCHANGED <<store, files, clock, lastUpsert, calls, writes>>
  /\ UNCHANGED callers

BackupWrite ==
  /\ pc = "bk_write"
  /\ LET filePath == FileName(bk.kind, bk.timestamp) IN
     \E out \in {"ok", "fail"} :
       /\ Outcome(out)
       /\ Log(<<[op |-> "writeFile", arg |-> filePath, out |-> out]>>
                \o (IF out = "fail" THEN ThrowLogs(bk.caller)
                    ELSE IF bk.kind = "full" THEN <<>> ELSE LogService("info")))
       /\ IF out = "fail"
            THEN /\ ThrowFromBackup
                 /\ files' = files
            ELSE /\ files' = Put(files, filePath, JSONroundtrip(BackupData(bk)))
                 /\ IF bk.kind = "full"
                      THEN /\ pc' = "bk_cleanup"
                           /\ UNCHANGED <<bk, rs, result>>
                      ELSE ReturnFromBackup(filePath)
  /\ UNCHANGED <<store, clock, lastUpsert, calls, writes>>
  /\ UNCHANGED callers

\* ----------------------------------------------------- retention manager
Perms(S) ==
  {f \in [1..Cardinality(S) -> S] : \A i, j \in DOMAIN f : f[i] = f[j] => i = j}

\* The comparator of the sort: b - a on the parsed timestamps; NaN counts as 0.
CompareNewestFirst(a, b) ==
  LET ta == DateGetTime(a.metadata.timestamp)
      tb == DateGetTime(b.metadata.timestamp)
  IN IF ta = NaN \/ tb = NaN THEN 0 ELSE tb - ta

RECURSIVE InsertSorted(_, _)
InsertSorted(s, x) ==
  IF s = <<>> THEN <<x>>
  ELSE IF CompareNewestFirst(s[Len(s)], x) <= 0 THEN Append(s, x)
  ELSE Append(InsertSorted(SubSeq(s, 1, Len(s) - 1), x), s[Len(s)])

RECURSIVE StableSort(_)
StableSort(s) ==
  IF s = <<>> THEN <<>>
  ELSE InsertSorted(StableSort(SubSeq(s, 1, Len(s) - 1)), s[Len(s)])

\* The .json files of the directory that JSON.parse accepts, in readdir order,
\* each pushed as {path, metadata: backupData.metadata}; a file whose content
\* has no metadata section is pushed with metadata undefined, and a file that
\* does not parse is skipped by the per-file catch.
ListEntries(order) ==
  LET parsed == SelectSeq(order, LAMBDA p : ~Has(files[p], "unparseable"))
  IN [i \in 1..Len(parsed) |->
        IF Has(files[parsed[i]], "metadata")
          THEN [path |-> parsed[i], metadata |-> files[parsed[i]].metadata]
          ELSE [path |-> parsed[i]]]

\* listAvailableBackups on a directory that readdir lists in the given order.
\* The comparator reads metadata.timestamp of both entries: with two or more
\* entries, one of them without metadata, the sort throws and the outer catch
\* returns the empty list.
listAvailableBackups(order) ==
  LET entries == ListEntries(order)
  IN IF Len(entries) >= 2 /\ \E i \in 1..Len(entries) : ~Has(entries[i], "metadata")
       THEN <<>>
       ELSE StableSort(entries)

\* The log lines of listAvailableBackups: a warning for every file the per-file
\* catch skips, and an error when the outer catch takes the exception of the
\* sort.
ListLog(order) ==
  LET entries == ListEntries(order)
      skipped == SelectSeq(order, LAMBDA p : Has(files[p], "unparseable"))
      Warns[i \in 0..Len(skipped)] == IF i = 0 THEN <<>> ELSE Warns[i - 1] \o LogService("warn")
  IN Warns[Len(skipped)]
     \o (IF Len(entries) >= 2 /\ \E i \in 1..Len(entries) : ~Has(entries[i], "metadata")
           THEN LogService("error") ELSE <<>>)

\* backups.slice(maxBackupCount) when the list is longer than maxBackupCount.
BackupsToDelete(backups) ==
  IF Len(backups) > maxBackupCount
    THEN SubSeq(backups, maxBackupCount + 1, Len(backups))
    ELSE <<>>

Unlinked_AbortOnFailure(doomed, failed) ==
  {doomed[i].path : i \in {j \in 1..Len(doomed) : \A k \in failed : j < k}}

\* The files the deletion loop removes: every file to delete whose unlink did
\* not fail; a failed unlink is caught inside the loop, which goes on.
Unlinked(doomed, failed) ==
  {doomed[i].path : i \in (1..Len(doomed)) \ failed}

RECURSIVE UnlinkLog(_, _, _)
\* The operations of the deletion loop from position i on: one unlink per file
\* to delete, each followed by its info or error log line.
UnlinkLog(doomed, failed, i) ==
  IF i > Len(doomed) THEN <<>>
  ELSE <<[op |-> "unlink", arg |-> doomed[i].path,
          out |-> IF i \in failed THEN "fail" ELSE "ok"]>>
       \o LogService(IF i \in failed THEN "error" ELSE "info")
       \o UnlinkLog(doomed, failed, i + 1)

\* cleanupOldBackups, then the return of createFullBackup.
BackupCleanup ==
  /\ pc = "bk_cleanup"
  /\ \E order \in Perms(DOMAIN files) :
       \E doomed \in {BackupsToDelete(listAvailableBackups(order))} :
       \E failed \in SUBSET (1..Len(doomed)) :
          /\ faults + Cardinality(failed) <= MaxFaults
          /\ faults' = faults + Cardinality(failed)
          /\ files' = [p \in (DOMAIN files) \ Unlinked(doomed, failed) |-> files[p]]
          /\ Log(ListLog(order) \o UnlinkLog(doomed, failed, 1) \o LogService("info"))
  /\ ReturnFromBackup(FileName(bk.kind, bk.timestamp))
  /\ UNCHANGED <<store, clock, lastUpsert, calls, writes>>
  /\ UNCHANGED callers

\* listAvailableBackups called on its own: the list it returns.
ListCall ==
  /\ pc = "idle"
  /\ calls = 0
  /\ calls' = calls + 1
  /\ \E order \in Perms(DOMAIN files) :
       /\ result' = [op |-> "listAvailableBackups", status |-> "returned",
                     list |-> listAvailableBackups(order)]
       /\ oplog' = ListLog(order)
  /\ UNCHANGED <<store, files, clock, pc, bk, rs, lastUpsert, writes, faults>>
  /\ UNCHANGED callers

\* ---------------------------------------------------- snapshot validator
\* A data entry that is not an array (a JSON object in place of the rows).
NotAnArray == <<[id |-> -1, v |-> -1]>>

IsArray(tableData) == tableData # NotAnArray

RECURSIVE TableIssues(_, _)
\* The per-table checks of validateBackup over the listed tables, in order
\* (lines 570-596); the data section is present.
TableIssues(bd, tables) ==
  IF tables = <<>> THEN <<>>
  ELSE LET t == Head(tables)
           md == bd.metadata
           here ==
             IF ~Has(bd.data, t)
               THEN <<[issue |-> "no_data", table |-> t]>>
             ELSE IF ~IsArray(bd.data[t])
               THEN <<[issue |-> "not_array", table |-> t]>>
               ELSE (IF Has(md, "recordCount")
                        /\ (~Has(md.recordCount, t) \/ md.recordCount[t] # Len(bd.data[t]))
                       THEN <<[issue |-> "record_count", table |-> t]>> ELSE <<>>)
                    \o
                    (IF Has(md, "checksums") /\ Has(md.checksums, t)
                        /\ Sha256(JSONstringify(Arr(bd.data[t]))) # md.checksums[t]
                       THEN <<[issue |-> "checksum", table |-> t]>> ELSE <<>>)
       IN here \o TableIssues(bd, Tail(tables))

\* The result of the outer catch (lines 603-608): the issues collected so far
\* are dropped and one issue carrying the exception message is returned.
ValidationError ==
  [valid |-> FALSE, issues |-> <<[issue |-> "validation_error", table |-> ""]>>]

\* validateBackup(backupPath) on the directory dir.
validateBackup(dir, backupPath) ==
  IF ~Has(dir, backupPath)
    THEN [valid |-> FALSE, issues |-> <<[issue |-> "read_error", table |-> ""]>>]
  ELSE LET bd == dir[backupPath] IN
  IF Has(bd, "unparseable")
    THEN [valid |-> FALSE, issues |-> <<[issue |-> "parse_error", table |-> ""]>>]
  ELSE IF ~Has(bd, "metadata")
    THEN ValidationError   \* line 556 reads a property of undefined
  ELSE IF ~Has(bd, "data") /\ Has(bd.metadata, "tables") /\ bd.metadata.tables # <<>>
    THEN ValidationError   \* line 571 reads a property of undefined
  ELSE LET md == bd.metadata
           issues ==
             (IF ~Has(bd, "data")
                THEN <<[issue |-> "no_data_section", table |-> ""]>> ELSE <<>>)
             \o (IF ~Has(md, "timestamp")
                   THEN <<[issue |-> "no_timestamp", table |-> ""]>> ELSE <<>>)
             \o (IF ~Has(md, "version")
                   THEN <<[issue |-> "no_version", table |-> ""]>> ELSE <<>>)
             \o (IF ~Has(md, "tables") \/ md.tables = <<>>
                   THEN <<[issue |-> "no_tables", table |-> ""]>> ELSE <<>>)
             \o (IF Has(md, "tables") THEN TableIssues(bd, md.tables) ELSE <<>>)
       IN [valid |-> Len(issues) = 0, issues |-> issues]

PathChoices ==
  [kind : {"backup", "critical_backup"}, ts : 0..MaxClock]

ValidateCall ==
  /\ pc = "idle"
  /\ calls = 0
  /\ calls' = calls + 1
  /\ \E backupPath \in PathChoices :
       LET v == validateBackup(files, backupPath)
       IN /\ result' = [op |-> "validateBackup", status |-> "returned",
                        path |-> backupPath, valid |-> v.valid, issues |-> v.issues]
          /\ oplog' = <<[op |-> "readFile", arg |-> backupPath,
                         out |-> IF Has(files, backupPath) THEN "ok" ELSE "fail"]>>
  /\ UNCHANGED <<store, files, clock, pc, bk, rs, lastUpsert, writes, faults>>
  /\ UNCHANGED callers

Drop(f, k) == [x \in (DOMAIN f) \ {k} |-> f[x]]

\* The contents of bd with one field of one row of table t changed.
RowFieldEdits(bd, t) ==
  UNION {{[bd EXCEPT !.data[t][i].v = val] : val \in Vals \ {bd.data[t][i].v}}
         \cup {[bd EXCEPT !.data[t][i].id = id] : id \in Ids \ RowIds(bd.data[t])} :
         i \in 1..Len(bd.data[t])}

\* The contents a snapshot file can be changed to by one edit made outside the
\* service: a section, a metadata entry or a table entry removed, a table
\* entry replaced by an object, a row removed, one field of one row changed,
\* or the text cut so that it no longer parses.
EditsOf(bd) ==
  IF Has(bd, "unparseable") THEN {}
  ELSE
    {[unparseable |-> TRUE]}
    \cup {Drop(bd, k) : k \in DOMAIN bd}
    \cup (IF ~Has(bd, "metadata") THEN {}
          ELSE LET md == bd.metadata IN
               (IF Has(md, "tables")
                  THEN {[bd EXCEPT !.metadata = Drop(md, "tables")]}
                       \cup (IF md.tables # <<>>
                               THEN {[bd EXCEPT !.metadata.tables = <<>>]} ELSE {})
                  ELSE {})
               \cup {[bd EXCEPT !.metadata.recordCount = Drop(@, t)] : t \in DOMAIN md.recordCount}
               \cup {[bd EXCEPT !.metadata.checksums = Drop(@, t)] : t \in DOMAIN md.checksums})
    \cup (IF ~Has(bd, "data") THEN {}
          ELSE UNION {
                 {[bd EXCEPT !.data = Drop(@, t)]}
                 \cup (IF ~IsArray(bd.data[t]) THEN {}
                       ELSE {[bd EXCEPT !.data[t] = NotAnArray]}
                            \cup {[bd EXCEPT !.data[t] = RemoveAt(@, i)] : i \in 1..Len(bd.data[t])}
                            \cup RowFieldEdits(bd, t))
                 : t \in DOMAIN bd.data})

\* A snapshot file is changed on disk between its build and its validation.
EditFile ==
  /\ pc = "idle"
  /\ calls = 0
  /\ writes < MaxEdits
  /\ \E p \in DOMAIN files : \E content \in EditsOf(files[p]) :
       files' = [files EXCEPT ![p] = content]
  /\ writes' = writes + 1
  /\ UNCHANGED <<store, clock, pc, bk, rs, result, oplog, lastUpsert, calls, faults>>
  /\ UNCHANGED callers

\* --------------------------------------------------- restore orchestrator
Absent == {}

\* The options a caller passes: each table filter absent or naming the first table.
OptionChoices ==
  [clearBeforeRestore : BOOLEAN,
   onlyTables : {Absent, {BACKUP_TABLES[1]}},
   skipTables : {Absent, {BACKUP_TABLES[1]}}]

TablesToRestore_IgnoreSkip(bd, options) ==
  IF Cardinality(options.onlyTables) > 0
    THEN SelectSeq(bd.metadata.tables, LAMBDA t : t \in options.onlyTables)
    ELSE bd.metadata.tables

\* The worklist: metadata.tables filtered by onlyTables, then by skipTables.
TablesToRestore(bd, options) ==
  LET only == IF Cardinality(options.onlyTables) > 0
                THEN SelectSeq(bd.metadata.tables, LAMBDA t : t \in options.onlyTables)
                ELSE bd.metadata.tables
  IN IF Cardinality(options.skipTables) > 0
       THEN SelectSeq(only, LAMBDA t : t \notin options.skipTables)
       ELSE only

\* supabase.from(table).delete().neq('id', 0)
DeleteNeqId0(rows) == SelectSeq(rows, LAMBDA r : ~(r.id # 0))

IndexOfId(rows, id) == CHOOSE i \in 1..Len(rows) : rows[i].id = id

UpsertRow_InsertOnly(rows, r) == Append(rows, r)

\* One row of the upsert: a row of the same id is overwritten, else inserted.
UpsertRow(rows, r) ==
  IF r.id \in RowIds(rows)
    THEN [rows EXCEPT ![IndexOfId(rows, r.id)] = r]
    ELSE Append(rows, r)

Upsert_Replace(rows, tableData) == tableData

RECURSIVE Upsert(_, _)
\* supabase.from(table).upsert(tableData, { onConflict: 'id' })
Upsert(rows, tableData) ==
  IF tableData = <<>> THEN rows
  ELSE Upsert(UpsertRow(rows, Head(tableData)), Tail(tableData))

SafetyNetFirst_Skipped(b) == "rs_loop"

\* Line 249: the safety-net build is awaited before the worklist is touched.
SafetyNetFirst(b) == AfterExport(b)

\* Lines 240-246: a snapshot of another format version is logged as a
\* warning; the restore goes on.
VersionCheck(bd) ==
  IF bd.metadata.version # version THEN LogService("warn") ELSE <<>>

\* The operations of restoreFromBackup up to the safety-net build (lines
\* 234-249) on the directory dir.
ReadLog(dir, backupPath) ==
  LogService("info")
  \o (IF ~Has(dir, backupPath)
        THEN <<[op |-> "readFile", arg |-> backupPath, out |-> "fail"]>>
             \o LogService("error")
        ELSE <<[op |-> "readFile", arg |-> backupPath, out |-> "ok"]>>
             \o VersionCheck(dir[backupPath])
             \o LogService("info"))

RestoreJob_VersionGated(bd, backupPath, options) ==
  [kind |-> "restore",
   backupPath |-> backupPath,
   backupData |-> bd,
   options |-> options,
   tablesToRestore |-> IF bd.metadata.version # version THEN <<>>
                       ELSE TablesToRestore(bd, options),
   idx |-> 1,
   tablesRestored |-> 0,
   recordsRestored |-> 0,
   errors |-> EmptyMap,
   visited |-> <<>>,
   preRestoreBackupPath |-> NoPath]

\* restoreDetails and the worklist at the start of the loop (lines 252-268).
RestoreJob(bd, backupPath, options) ==
  [kind |-> "restore",
   backupPath |-> backupPath,
   backupData |-> bd,
   options |-> options,
   tablesToRestore |-> TablesToRestore(bd, options),
   idx |-> 1,
   tablesRestored |-> 0,
   recordsRestored |-> 0,
   errors |-> EmptyMap,
   visited |-> <<>>,
   preRestoreBackupPath |-> NoPath]

RestoreCall(backupPath, options) ==
  /\ pc = "idle"
  /\ calls' = calls + 1
  /\ oplog' = ReadLog(files, backupPath)
  /\ IF ~Has(files, backupPath)
         THEN /\ result' = FatalResult
              /\ UNCHANGED <<pc, bk, rs>>
         ELSE /\ result' = NoResult
              /\ rs' = RestoreJob(files[backupPath], backupPath, options)
              /\ bk' = NewBackup("full", "pre-restore", "restore", clock)
              /\ pc' = SafetyNetFirst(bk')
  /\ UNCHANGED <<store, files, clock, lastUpsert, writes, faults>>

restoreFromBackup ==
  /\ calls = 0
  /\ \E backupPath \in PathChoices, options \in OptionChoices :
       RestoreCall(backupPath, options)
  /\ UNCHANGED callers

\* The clock moves on after a restore has returned its report.
TickBetween ==
  /\ pc = "idle"
  /\ calls = 1
  /\ result.op = "restoreFromBackup"
  /\ ~result.fatal
  /\ clock < MaxClock
  /\ clock' = clock + 1
  /\ UNCHANGED <<store, files, pc, bk, rs, result, oplog, lastUpsert, calls, writes, faults>>
  /\ UNCHANGED callers

\* The same restoreFromBackup call again, right after the first has returned
\* its report.
restoreFromBackupAgain ==
  /\ calls = 1
  /\ result.op = "restoreFromBackup"
  /\ ~result.fatal
  /\ RestoreCall(result.backupPath, result.options)
  /\ UNCHANGED callers

StoreOutcomes == {"ok", "error", "throw"}

Fail_Break(r, t, msg) ==
  [r EXCEPT !.errors = Put(@, t, msg),
            !.idx = Len(r.tablesToRestore) + 1,
            !.visited = Append(@, t)]

\* An iteration that records a per-table error and continues with the next table.
Fail(r, t, msg) ==
  [r EXCEPT !.errors = Put(@, t, msg), !.idx = @ + 1, !.visited = Append(@, t)]

Succeed_Assign(r, t, n) ==
  [r EXCEPT !.tablesRestored = @ + 1,
            !.recordsRestored = n,
            !.idx = @ + 1,
            !.visited = Append(@, t)]

\* The success record of an iteration: lines 311-312.
Succeed(r, t, n) ==
  [r EXCEPT !.tablesRestored = @ + 1,
            !.recordsRestored = @ + n,
            !.idx = @ + 1,
            !.visited = Append(@, t)]

\* Bookkeeping of successive upserts of the same rows into an untouched table.
NoteUpsert(last, clear, tableData) ==
  IF ~clear /\ last.n > 0 /\ last.rows = tableData
    THEN [n |-> 2, rows |-> tableData]
    ELSE [n |-> 1, rows |-> tableData]

HasData_MissingOnly(bd, t) == Has(bd.data, t)

\* Line 277 negated: tableData is there and has rows.
HasData(bd, t) == Has(bd.data, t) /\ Len(bd.data[t]) > 0

\* One iteration of the restore loop (lines 271-319) for the job r on the
\* rows of its table, with the outcomes of the clear and of the upsert: the
\* job after it, the rows after it, the operations issued.
RestoreIteration(r, rows, cout, uout) ==
  LET t == r.tablesToRestore[r.idx]
      clear == r.options.clearBeforeRestore
      tableData == r.backupData.data[t]
      cleared == IF clear /\ cout = "ok" THEN DeleteNeqId0(rows) ELSE rows
      clearLog == IF clear THEN <<[op |-> "delete", arg |-> t, out |-> cout]>> ELSE <<>>
  IN IF ~HasData(r.backupData, t)
       THEN [rs |-> Fail(r, t, "no_data"), rows |-> rows, fate |-> "no_data",
             ops |-> LogService("debug") \o LogService("warn")]
     ELSE IF clear /\ cout # "ok"
       THEN [rs |-> Fail(r, t, IF cout = "error" THEN "clear_error" ELSE "exception"),
             rows |-> rows, fate |-> "clear_failed",
             ops |-> LogService("debug") \o clearLog \o LogService("error")]
     ELSE IF uout = "ok"
       THEN [rs |-> Succeed(r, t, Len(tableData)),
             rows |-> Upsert(cleared, tableData), fate |-> "restored",
             ops |-> LogService("debug") \o clearLog
                     \o <<[op |-> "upsert", arg |-> t, out |-> uout]>>
                     \o LogService("info")]
       ELSE [rs |-> Fail(r, t, IF uout = "error" THEN "insert_error" ELSE "exception"),
             rows |-> cleared, fate |-> "upsert_failed",
             ops |-> LogService("debug") \o clearLog
                     \o <<[op |-> "upsert", arg |-> t, out |-> uout]>>
                     \o LogService("error")]

\* The iteration on the store, the clear ending as cout and the upsert as uout
\* (an operation that is not issued counts as "ok").
RestoreTableWith(cout, uout) ==
  /\ pc = "rs_loop"
  /\ rs.idx <= Len(rs.tablesToRestore)
  /\ LET t == rs.tablesToRestore[rs.idx]
         clear == rs.options.clearBeforeRestore
     IN /\ (~HasData(rs.backupData, t) \/ ~clear) => cout = "ok"
        /\ (~HasData(rs.backupData, t) \/ cout # "ok") => uout = "ok"
        /\ IF cout # "ok" THEN Outcome(cout) ELSE Outcome(uout)
        /\ \E it \in {RestoreIteration(rs, store[t], cout, uout)} :
             /\ rs' = it.rs
             /\ store' = [store EXCEPT ![t] = it.rows]
             /\ Log(it.ops)
             /\ lastUpsert' =
                  CASE it.fate = "restored" ->
                         [lastUpsert EXCEPT ![t] = NoteUpsert(@, clear, rs.backupData.data[t])]
                    [] it.fate = "upsert_failed" ->
                         [lastUpsert EXCEPT ![t] = IF clear THEN NoUpsert ELSE @]
                    [] OTHER -> lastUpsert
  /\ UNCHANGED <<files, clock, pc, bk, result, calls, writes>>

\* One iteration of the restore loop.
RestoreTable ==
  /\ pc = "rs_loop"
  /\ \E cout \in StoreOutcomes, uout \in StoreOutcomes : RestoreTableWith(cout, uout)
  /\ UNCHANGED callers

\* The report of a finished loop (lines 321-336).
RestoreReport(r) ==
  [op |-> "restoreFromBackup", status |-> "returned",
   success |-> r.tablesRestored > 0 /\ DOMAIN r.errors = {},
   fatal |-> FALSE,
   tablesRestored |-> r.tablesRestored,
   recordsRestored |-> r.recordsRestored,
   errors |-> r.errors,
   preRestoreBackupPath |-> r.preRestoreBackupPath,
   options |-> r.options,
   backupPath |-> r.backupPath,
   backupData |-> r.backupData,
   tablesToRestore |-> r.tablesToRestore,
   visited |-> r.visited]

\* The log line that closes the restore.
FinishLog(r) ==
  LogService(IF r.tablesRestored > 0 /\ DOMAIN r.errors = {} THEN "info" ELSE "warn")

RestoreFinishStep ==
  /\ pc = "rs_loop"
  /\ rs.idx > Len(rs.tablesToRestore)
  /\ result' = RestoreReport(rs)
  /\ Log(FinishLog(rs))
  /\ pc' = "idle"
  /\ rs' = NoJob
  /\ UNCHANGED <<store, files, clock, bk, lastUpsert, calls, writes, faults>>

\* The end of the loop: the report.
RestoreFinish ==
  /\ RestoreFinishStep
  /\ UNCHANGED callers

Next ==
  \/ Tick
  \/ ExternalWrite
  \/ createFullBackup
  \/ createCriticalBackup
  \/ BackupExport
  \/ BackupWrite
  \/ BackupCleanup
  \/ ValidateCall
  \/ restoreFromBackup
  \/ RestoreTable
  \/ RestoreFinish

Spec == Init /\ [][Next]_vars

\* The same, with a second restoreFromBackup right after a first one.
NextTwice == Next \/ TickBetween \/ restoreFromBackupAgain

SpecTwice == Init /\ [][NextTwice]_vars

\* validateBackup on a snapshot file that was changed after its build.
NextValidate == EditFile \/ ValidateCall

SpecValidate == Init /\ [][NextValidate]_vars

\* A well-formed snapshot file, as the build of that kind writes it at time now.
SnapshotAt(kind, now) ==
  JSONroundtrip(BackupData(BuildLoop(
    NewBackup(kind, IF kind = "full" THEN Undefined ELSE "critical-only", "top", now),
    [t \in Range(IF kind = "full" THEN BACKUP_TABLES ELSE CRITICAL_TABLES) |-> "ok"])))

\* The directory that holds a full and a critical snapshot, both written at
\* time 0 with every export successful.
TwoFileDir ==
  [files |-> (FileName("full", FormatTimestamp(0)) :> SnapshotAt("full", 0))
             @@ (FileName("critical", FormatTimestamp(0)) :> SnapshotAt("critical", 0)),
   faults |-> 0]

InitCleanup ==
  /\ store = [t \in Tables |-> InitRows]
  /\ clock = 0
  /\ \E d \in InitDirs \cup {TwoFileDir} : files = d.files /\ faults = d.faults
  /\ pc = "idle"
  /\ bk = NoJob
  /\ rs = NoJob
  /\ result = NoResult
  /\ oplog = <<>>
  /\ lastUpsert = [t \in Tables |-> NoUpsert]
  /\ calls = 0
  /\ writes = 0
  /\ logConfig = DefaultLogConfig
  /\ script = NoScript
  /\ bot = NoBot
  /\ twin = NoTwin

\* createFullBackup and its retention pass on a directory of well-formed
\* snapshots.
NextCleanup ==
  \/ Tick
  \/ createFullBackup
  \/ BackupExport
  \/ BackupWrite
  \/ BackupCleanup

SpecCleanup == InitCleanup /\ [][NextCleanup]_vars

\* A .json file that parses but has no metadata section, and one that does
\* not parse.
StrayFile == [kind |-> "other", ts |-> 0]

JunkFile == [kind |-> "junk", ts |-> 0]

\* The .json files the backup directory can hold before a call: an earlier
\* full snapshot, a later critical snapshot, and the two files above.
DirCandidates ==
  (FileName("full", FormatTimestamp(0)) :> SnapshotAt("full", 0))
  @@ (FileName("critical", FormatTimestamp(MaxClock)) :> SnapshotAt("critical", MaxClock))
  @@ (StrayFile :> [data |-> EmptyMap])
  @@ (JunkFile :> [unparseable |-> TRUE])

InitRetention ==
  /\ store = [t \in Tables |-> InitRows]
  /\ clock = MaxClock
  /\ \E S \in SUBSET (DOMAIN DirCandidates) : files = [p \in S |-> DirCandidates[p]]
  /\ faults = 0
  /\ pc = "idle"
  /\ bk = NoJob
  /\ rs = NoJob
  /\ result = NoResult
  /\ oplog = <<>>
  /\ lastUpsert = [t \in Tables |-> NoUpsert]
  /\ calls = 0
  /\ writes = 0
  /\ logConfig = DefaultLogConfig
  /\ script = NoScript
  /\ bot = NoBot
  /\ twin = NoTwin

\* The listing and the retention pass on a directory of any such files.
NextRetention ==
  \/ createFullBackup
  \/ BackupExport
  \/ BackupWrite
  \/ BackupCleanup
  \/ ListCall

SpecRetention == InitRetention /\ [][NextRetention]_vars

\* The format versions a snapshot file can carry: the current one and an
\* older one.
OtherVersion == "0.9"

Versions == {version, OtherVersion}

WithVersion(bd, v) == [bd EXCEPT !.metadata.version = v]

\* The operations the step from the current state to the next has issued.
NewOps == SubSeq(oplog', Len(oplog) + 1, Len(oplog'))

\* A directory an earlier build left, its snapshot written by the current or by
\* the older version of the program; database logging on or off.
InitVersion ==
  /\ store = [t \in Tables |-> InitRows]
  /\ clock = 0
  /\ \E d \in InitDirs, v \in Versions :
       /\ d.files # EmptyMap
       /\ files = [p \in DOMAIN d.files |-> WithVersion(d.files[p], v)]
       /\ faults = d.faults
  /\ pc = "idle"
  /\ bk = NoJob
  /\ rs = NoJob
  /\ result = NoResult
  /\ oplog = <<>>
  /\ lastUpsert = [t \in Tables |-> NoUpsert]
  /\ calls = 0
  /\ writes = 0
  /\ logConfig \in {DefaultLogConfig, [enableDatabase |-> FALSE]}
  /\ script = NoScript
  /\ bot = NoBot
  /\ twin = NoTwin

\* restoreFromBackup, and next to it the same call on the same file carrying
\* the other version.
restoreFromBackupBoth ==
  /\ calls = 0
  /\ \E backupPath \in DOMAIN files, options \in OptionChoices :
       /\ RestoreCall(backupPath, options)
       /\ LET bd == WithVersion(files[backupPath],
                                CHOOSE v \in Versions : v # files[backupPath].metadata.version)
          IN twin' = [active |-> TRUE,
                      rs |-> RestoreJob(bd, backupPath, options),
                      store |-> store,
                      ops |-> ReadLog([files EXCEPT ![backupPath] = bd], backupPath),
                      mine |-> oplog',
                      report |-> NoResult]
  /\ UNCHANGED <<logConfig, script, bot>>

\* One iteration of both loops, with the same outcomes of clear and upsert.
RestoreTableBoth ==
  /\ pc = "rs_loop"
  /\ \E cout \in StoreOutcomes, uout \in StoreOutcomes :
       /\ RestoreTableWith(cout, uout)
       /\ IF twin.rs.idx <= Len(twin.rs.tablesToRestore)
            THEN LET t == twin.rs.tablesToRestore[twin.rs.idx] IN
                 \E it \in {RestoreIteration(twin.rs, twin.store[t], cout, uout)} :
                    twin' = [twin EXCEPT !.rs = it.rs,
                                         !.store[t] = it.rows,
                                         !.ops = @ \o it.ops,
                                         !.mine = @ \o NewOps]
            ELSE twin' = [twin EXCEPT !.mine = @ \o NewOps]
  /\ UNCHANGED <<logConfig, script, bot>>

\* Both loops are through: the two reports.
RestoreFinishBoth ==
  /\ RestoreFinishStep
  /\ twin' = [twin EXCEPT !.report = RestoreReport(twin.rs),
                          !.ops = @ \o FinishLog(twin.rs),
                          !.mine = @ \o NewOps]
  /\ UNCHANGED <<logConfig, script, bot>>

NextVersion ==
  \/ restoreFromBackupBoth
  \/ BackupExport
  \/ BackupWrite
  \/ BackupCleanup
  \/ RestoreTableBoth
  \/ RestoreFinishBoth

SpecVersion == InitVersion /\ [][NextVersion]_vars

\* ------------------------------------------------ the restore command
\* What the operator types at a (y/N) question.
Answers == {"y", "Y", "n", ""}

NoAnswer == "not asked"

\* The exit status of a script that has not exited.
Running == -1

\* answer.toLowerCase() on the answers above.
toLowerCase(answer) ==
  CASE answer = "Y" -> "y"
    [] answer = "N" -> "n"
    [] OTHER -> answer

askForConfirmation_DefaultYes(answer) == toLowerCase(answer) # "n"

\* askForConfirmation resolves to true for the answer y, in either case.
askForConfirmation(answer) == toLowerCase(answer) = "y"

\* exit(result.success ? 0 : 1)
ExitStatus(r) == IF r.success THEN 0 ELSE 1

\* --file absent.
NoFile == [kind |-> "absent", ts |-> 0]

Exit(sc, status) == [sc EXCEPT !.pc = "exited", !.status = status]

\* main up to the validation: LogService.initialize with database logging
\* off, parseArguments, the checks of --file.
ScriptStart ==
  /\ script = NoScript
  /\ pc = "idle"
  /\ calls = 0
  /\ logConfig' = [enableDatabase |-> FALSE]
  /\ \E file \in PathChoices \cup {NoFile}, options \in OptionChoices :
       LET sc == [pc |-> "validate", file |-> file, options |-> options,
                  validated |-> FALSE, valid |-> FALSE,
                  proceed |-> NoAnswer, confirm |-> NoAnswer,
                  called |-> FALSE, status |-> Running]
       IN script' = IF file = NoFile \/ ~Has(files, file) THEN Exit(sc, 1) ELSE sc
  /\ UNCHANGED <<store, files, clock, pc, bk, rs, result, oplog, lastUpsert, calls, writes,
                 faults, bot, twin>>

\* validateBackup(filePath), lines 126-142.
ScriptValidate ==
  /\ script.pc = "validate"
  /\ LET validation == validateBackup(files, script.file)
     IN script' = [script EXCEPT !.validated = TRUE,
                                 !.valid = validation.valid,
                                 !.pc = IF validation.valid THEN "confirm" ELSE "proceed"]
  /\ UNCHANGED <<store, files, clock, pc, bk, rs, result, oplog, lastUpsert, calls, writes,
                 faults, logConfig, bot, twin>>

\* The question after a validation with issues, lines 135-139.
ScriptProceed ==
  /\ script.pc = "proceed"
  /\ \E answer \in Answers :
       script' = IF askForConfirmation(answer)
                   THEN [script EXCEPT !.proceed = answer, !.pc = "confirm"]
                   ELSE Exit([script EXCEPT !.proceed = answer], 1)
  /\ UNCHANGED <<store, files, clock, pc, bk, rs, result, oplog, lastUpsert, calls, writes,
                 faults, logConfig, bot, twin>>

\* The restore confirmation, with --clear or without, lines 145-163.
ScriptConfirm ==
  /\ script.pc = "confirm"
  /\ \E answer \in Answers :
       script' = IF askForConfirmation(answer)
                   THEN [script EXCEPT !.confirm = answer, !.pc = "restore"]
                   ELSE Exit([script EXCEPT !.confirm = answer], 1)
  /\ UNCHANGED <<store, files, clock, pc, bk, rs, result, oplog, lastUpsert, calls, writes,
                 faults, logConfig, bot, twin>>

\* BackupService.restoreFromBackup(filePath, {...}), line 167.
ScriptRestore ==
  /\ script.pc = "restore"
  /\ RestoreCall(script.file, script.options)
  /\ script' = [script EXCEPT !.called = TRUE, !.pc = "await"]
  /\ UNCHANGED <<logConfig, bot, twin>>

\* The restore has returned: exit(result.success ? 0 : 1), line 199.
ScriptExit ==
  /\ script.pc = "await"
  /\ pc = "idle"
  /\ result.op = "restoreFromBackup"
  /\ script' = Exit(script, ExitStatus(result))
  /\ UNCHANGED <<store, files, clock, pc, bk, rs, result, oplog, lastUpsert, calls, writes,
                 faults, logConfig, bot, twin>>

NextScript ==
  \/ ScriptStart
  \/ ScriptValidate
  \/ ScriptProceed
  \/ ScriptConfirm
  \/ ScriptRestore
  \/ BackupExport
  \/ BackupWrite
  \/ BackupCleanup
  \/ RestoreTable
  \/ RestoreFinish
  \/ ScriptExit

SpecScript == Init /\ [][NextScript]_vars

\* ------------------------------------------------------ the bot process
\* The clock of the bot advances in ticks, TicksPerHour to the hour.
TicksPerHour == 2

HoursPerDay == 24

\* if (currentHour >= 3 && currentHour < 4)
BackupHour == 3

\* setTimeout(hourlyCheck, 60 * 60 * 1000), in hours.
CheckPeriodHours == 1

\* new Date().getHours() at tick tod of the day.
getHours(tod) == tod \div TicksPerHour

DayTicks == HoursPerDay * TicksPerHour

BotUp == bot.check # "none" /\ ~bot.exited

BotUnchanged ==
  UNCHANGED <<store, files, clock, pc, bk, rs, result, oplog, lastUpsert, calls, writes,
              faults, logConfig, script, twin>>

\* client.once('ready'): the first hourlyCheck() is called at once, at any
\* time of the day.
BotReady ==
  /\ bot = NoBot
  /\ \E tod \in 0..(DayTicks - 1) :
       bot' = [check |-> "running", tod |-> tod, timer |-> 0,
               full |-> FALSE, critical |-> FALSE, exited |-> FALSE,
               sawOpen |-> FALSE, started |-> 0, missed |-> FALSE]
  /\ BotUnchanged

\* Time passes, also while a check or a backup is running; a timer that is
\* due fires before more time passes. The window bookkeeping: sawOpen when
\* the clock enters the backup hour with the bot up, started counts the daily
\* backups of the window, missed when the window closes with none started.
BotTick ==
  /\ BotUp
  /\ ~(bot.check = "waiting" /\ bot.timer = 0)
  /\ LET tod == (bot.tod + 1) % DayTicks
         opens == getHours(bot.tod) # BackupHour /\ getHours(tod) = BackupHour
         closes == getHours(bot.tod) = BackupHour /\ getHours(tod) # BackupHour
     IN bot' = [bot EXCEPT
                  !.tod = tod,
                  !.timer = IF bot.check = "waiting" THEN @ - 1 ELSE @,
                  !.sawOpen = IF opens THEN TRUE ELSE IF closes THEN FALSE ELSE @,
                  !.started = IF opens THEN 0 ELSE @,
                  !.missed = @ \/ (closes /\ bot.sawOpen /\ bot.started = 0)]
  /\ BotUnchanged

\* The timer set by the last run fires: hourlyCheck runs.
HourlyCheckFire ==
  /\ BotUp
  /\ bot.check = "waiting"
  /\ bot.timer = 0
  /\ bot' = [bot EXCEPT !.check = "running"]
  /\ BotUnchanged

\* hourlyCheck up to its await of createFullBackup in the backup hour, or,
\* outside it, to its end: cleanupDatabaseLogs, the catch, and setTimeout.
HourlyCheckRun ==
  /\ BotUp
  /\ bot.check = "running"
  /\ bot' = IF getHours(bot.tod) >= BackupHour /\ getHours(bot.tod) < BackupHour + 1
              THEN [bot EXCEPT !.check = "backup", !.full = TRUE, !.started = @ + 1]
              ELSE [bot EXCEPT !.check = "waiting",
                               !.timer = CheckPeriodHours * TicksPerHour]
  /\ BotUnchanged

\* createFullBackup returns or throws; either way the check ends in
\* setTimeout(hourlyCheck, one hour).
HourlyCheckBackupDone ==
  /\ BotUp
  /\ bot.check = "backup"
  /\ bot' = [bot EXCEPT !.check = "waiting", !.full = FALSE,
                        !.timer = CheckPeriodHours * TicksPerHour]
  /\ BotUnchanged

\* process.on('uncaughtException'): an exception escapes some callback; the
\* handler logs it and awaits createCriticalBackup.
UncaughtException ==
  /\ BotUp
  /\ ~bot.critical
  /\ bot' = [bot EXCEPT !.critical = TRUE]
  /\ BotUnchanged

\* createCriticalBackup returns or throws, then process.exit(1).
CriticalBackupDone ==
  /\ BotUp
  /\ bot.critical
  /\ bot' = [bot EXCEPT !.critical = FALSE, !.full = FALSE, !.exited = TRUE]
  /\ BotUnchanged

NextBot ==
  \/ BotReady
  \/ BotTick
  \/ HourlyCheckFire
  \/ HourlyCheckRun
  \/ HourlyCheckBackupDone
  \/ UncaughtException
  \/ CriticalBackupDone

SpecBot == Init /\ [][NextBot]_vars

\* ================================================================ claims
\* The call that returned last was a build whose snapshot file is in place.
BuildReturned ==
  /\ pc = "idle"
  /\ result.op \in {"createFullBackup", "createCriticalBackup"}
  /\ result.status = "returned"

BuiltTables == IF result.op = "createFullBackup" THEN BACKUP_TABLES ELSE CRITICAL_TABLES

\* The store or file operation op on arg was logged with outcome out.
Logged(op, arg, out) ==
  \E i \in 1..Len(oplog) : oplog[i].op = op /\ oplog[i].arg = arg /\ oplog[i].out = out

\* The log at hand is that of a restoreFromBackup call, running or returned.
InRestoreCall ==
  \/ pc # "idle" /\ rs.kind = "restore"
  \/ pc = "idle" /\ result.op = "restoreFromBackup"

\* A restoreFromBackup call has returned a report (not the error result).
RestoreReported ==
  /\ pc = "idle"
  /\ result.op = "restoreFromBackup"
  /\ ~result.fatal

\* C1: when a build exports some tables and fails on others, the snapshot it
\* wrote holds rows, a row count and a checksum for exactly the exported
\* tables, and metadata.tables lists exactly the exported tables.
C1_PartialFailureIsolation ==
  (BuildReturned /\ Has(files, result.path)) =>
    LET snap == files[result.path] IN
    \A t \in Range(BuiltTables) :
      /\ Logged("select", t, "error") =>
           /\ ~Has(snap.data, t)
           /\ ~Has(snap.metadata.recordCount, t)
           /\ ~Has(snap.metadata.checksums, t)
           /\ t \notin Range(snap.metadata.tables)
      /\ Logged("select", t, "ok") =>
           /\ Has(snap.data, t)
           /\ Has(snap.metadata.recordCount, t)
           /\ Has(snap.metadata.checksums, t)
           /\ t \in Range(snap.metadata.tables)

\* C2: every restoreFromBackup call that returns a report names a
\* preRestoreBackupPath whose file exists and passes validateBackup.
C2_SafetyNetGuarantee ==
  RestoreReported =>
    /\ Has(files, result.preRestoreBackupPath)
    /\ validateBackup(files, result.preRestoreBackupPath).valid

\* C3: validateBackup on the file a build has just written reports
\* valid = true and no issues.
C3_RoundTrip ==
  BuildReturned =>
    validateBackup(files, result.path) = [valid |-> TRUE, issues |-> <<>>]

\* C4: in a snapshot written by a build, every table of metadata.tables has a
\* data entry, recordCount equals the number of stored rows and the checksum
\* is the digest of the serialization of exactly the stored rows.
C4_SnapshotInvariant ==
  (BuildReturned /\ Has(files, result.path)) =>
    LET snap == files[result.path] IN
    \A t \in Range(snap.metadata.tables) :
      /\ Has(snap.data, t)
      /\ Has(snap.metadata.recordCount, t)
      /\ snap.metadata.recordCount[t] = Len(snap.data[t])
      /\ Has(snap.metadata.checksums, t)
      /\ snap.metadata.checksums[t] = Sha256(JSONstringify(Arr(snap.data[t])))

\* C5: no delete and no upsert is issued before the full safety-net snapshot
\* has been exported (a select on every table) and written to its file.
C5_SafetyNetBeforeMutation ==
  \A i \in 1..Len(oplog) :
    oplog[i].op \in {"delete", "upsert"} =>
      \E j \in 1..(i - 1) :
        /\ oplog[j].op = "writeFile"
        /\ oplog[j].out = "ok"
        /\ oplog[j].arg.kind = "backup"
        /\ \A t \in Tables :
             \E k \in 1..(j - 1) : oplog[k].op = "select" /\ oplog[k].arg = t

\* C5 witness: a restore has written its safety net and then changed a table.
C5_Witness ==
  /\ InRestoreCall
  /\ \E i \in 1..Len(oplog) : oplog[i].op = "upsert" /\ oplog[i].out = "ok"
  /\ \E i \in 1..Len(oplog) : oplog[i].op = "delete" /\ oplog[i].out = "ok"

\* A safety-net export returned an error or raised, or its file write failed.
SafetyNetExportOrWriteFailed ==
  \E i \in 1..Len(oplog) :
    \/ oplog[i].op = "select" /\ oplog[i].out \in {"error", "throw"}
    \/ oplog[i].op = "writeFile" /\ oplog[i].out = "fail"

\* The safety-net build raised: a store call threw or the file write failed.
SafetyNetThrew ==
  \E i \in 1..Len(oplog) :
    \/ oplog[i].op = "select" /\ oplog[i].out = "throw"
    \/ oplog[i].op = "writeFile" /\ oplog[i].out = "fail"

NoMutationIssued ==
  \A i \in 1..Len(oplog) : oplog[i].op \notin {"delete", "upsert"}

SameRows(a, b) == Len(a) = Len(b) /\ Range(a) = Range(b)

\* C7: after a restore with clearBeforeRestore, every table restored without a
\* recorded error holds exactly the rows of the snapshot and no other row.
C7_ClearAndRestoreExact ==
  (RestoreReported /\ result.options.clearBeforeRestore) =>
    \A t \in Range(result.tablesToRestore) :
      ~Has(result.errors, t) => SameRows(store[t], result.backupData.data[t])

CountLogged(op, arg) ==
  Cardinality({i \in 1..Len(oplog) : oplog[i].op = op /\ oplog[i].arg = arg})

\* C9: every worklist table is attempted exactly once, in order, and a problem
\* on a table (no snapshot rows, a failed clear, a failed upsert, an
\* exception) is recorded under that table in the errors map.
C9_RestoreIsolation ==
  RestoreReported =>
    /\ result.visited = result.tablesToRestore
    /\ \A t \in Range(result.tablesToRestore) :
         /\ CountLogged("delete", t) <= 1
         /\ CountLogged("upsert", t) <= 1
         /\ (\/ ~HasData(result.backupData, t)
             \/ \E out \in {"error", "throw"} :
                  Logged("delete", t, out) \/ Logged("upsert", t, out))
              => Has(result.errors, t)

\* C9 witness: the first worklist table failed and the second was restored.
C9_Witness ==
  /\ RestoreReported
  /\ Len(result.tablesToRestore) >= 2
  /\ Has(result.errors, result.tablesToRestore[1])
  /\ Logged("upsert", result.tablesToRestore[2], "ok")

RECURSIVE SumRows(_, _)
SumRows(bd, ts) ==
  IF ts = {} THEN 0
  ELSE LET t == CHOOSE x \in ts : TRUE
       IN Len(bd.data[t]) + SumRows(bd, ts \ {t})

\* C10: in the report, tablesRestored counts the worklist tables without an
\* errors entry, recordsRestored sums their snapshot row counts, every
\* worklist table is either restored or has an errors entry, and success holds
\* exactly when tablesRestored > 0 and the errors map is empty.
C10_ReportAggregation ==
  RestoreReported =>
    LET work == Range(result.tablesToRestore)
        good == {t \in work : ~Has(result.errors, t)}
    IN /\ DOMAIN result.errors \subseteq work
       /\ \A t \in work : Logged("upsert", t, "ok") <=> t \in good
       /\ result.tablesRestored = Cardinality(good)
       /\ result.recordsRestored = SumRows(result.backupData, good)
       /\ result.success <=> (result.tablesRestored > 0 /\ DOMAIN result.errors = {})

\* C10 witness: a report with two restored tables.
C10_Witness ==
  /\ RestoreReported
  /\ result.tablesRestored = 2
  /\ result.recordsRestored >= 2

\* C10 witness of a partial success: some table restored, some table in error.
C10_PartialWitness ==
  /\ RestoreReported
  /\ result.tablesRestored > 0
  /\ DOMAIN result.errors # {}

\* The full snapshot files of the directory, and those newer than p by the
\* timestamp of their metadata.
FullSnapshots == {p \in DOMAIN files : p.kind = "backup"}

NewerThan(p) ==
  {q \in FullSnapshots :
     files[q].metadata.timestamp.sec > files[p].metadata.timestamp.sec}

\* C11: when more than maxBackupCount full snapshots exist, the retention pass
\* keeps exactly the maxBackupCount newest of them by metadata timestamp and
\* deletes the others.
C11_RetentionBoundary ==
  [][(pc = "bk_cleanup" /\ Cardinality(FullSnapshots) > maxBackupCount)
       => \A p \in FullSnapshots :
            (p \in DOMAIN files') <=> (Cardinality(NewerThan(p)) < maxBackupCount)]_vars

\* C12: the retention pass never deletes a critical snapshot file, and deletes
\* no full snapshot while the full snapshots alone do not exceed maxBackupCount.
C12_RetentionFullOnly ==
  [][pc = "bk_cleanup"
       => /\ \A p \in DOMAIN files : p.kind = "critical_backup" => p \in DOMAIN files'
          /\ Cardinality(FullSnapshots) <= maxBackupCount
               => FullSnapshots \subseteq DOMAIN files']_vars

\* C18: a restore iteration that ends with an errors entry for its table
\* leaves the rows of that table as they were before the iteration (each
\* table is attempted once, so as they were before the restore).
C18_AtomicTableImport ==
  [][(pc = "rs_loop" /\ rs.idx <= Len(rs.tablesToRestore))
       => LET t == rs.tablesToRestore[rs.idx] IN
          (pc' = "rs_loop" /\ Has(rs'.errors, t)) => store'[t] = store[t]]_vars

\* C19: a build never writes to the path of a snapshot file that exists.
C19_SnapshotWrittenOnce ==
  [][pc = "bk_write"
       => \A i \in (Len(oplog) + 1)..Len(oplog') :
            (oplog'[i].op = "writeFile" /\ oplog'[i].out = "ok")
              => oplog'[i].arg \notin DOMAIN files]_vars

\* C20: a build whose every export returned an error still returns the path of
\* a written snapshot, and that snapshot has no tables: metadata.tables,
\* recordCount, checksums and data are all empty.
C20_AllExportsFail ==
  (/\ pc = "idle"
   /\ result.op \in {"createFullBackup", "createCriticalBackup"}
   /\ \A t \in Range(BuiltTables) : Logged("select", t, "error"))
    => /\ result.status = "returned"
       /\ Has(files, result.path)
       /\ LET snap == files[result.path]
          IN /\ snap.metadata.tables = <<>>
             /\ DOMAIN snap.metadata.recordCount = {}
             /\ DOMAIN snap.metadata.checksums = {}
             /\ DOMAIN snap.data = {}

\* The worklist as the claim describes it: the tables of metadata.tables, in
\* order, that are in onlyTables when it is given and not in skipTables when
\* it is given.
ClaimedWorklist(bd, options) ==
  SelectSeq(bd.metadata.tables,
            LAMBDA t : /\ (options.onlyTables # Absent => t \in options.onlyTables)
                       /\ (options.skipTables # Absent => t \notin options.skipTables))

\* The store operations a step has issued.
IssuedOps == {oplog'[i] : i \in (Len(oplog) + 1)..Len(oplog')}

PerTableProblem(t) ==
  \E out \in {"error", "throw"} : Logged("delete", t, out) \/ Logged("upsert", t, out)

UnreadableSnapshot ==
  \E i \in 1..Len(oplog) : oplog[i].op = "readFile" /\ oplog[i].out = "fail"

C17_PerTableWitness ==
  /\ RestoreReported
  /\ \E t \in Tables : PerTableProblem(t)

\* validateBackup has returned its verdict on a file of the directory that parses.
ValidateReturned ==
  /\ pc = "idle"
  /\ result.op = "validateBackup"
  /\ Has(files, result.path)
  /\ ~Has(files[result.path], "unparseable")

Reports(issue, t) ==
  \E i \in 1..Len(result.issues) : result.issues[i] = [issue |-> issue, table |-> t]

\* C13: one validateBackup call on a file that parses reports an issue for
\* every defect of the file: a missing metadata section, a missing data
\* section, a missing or empty metadata.tables and, per listed table, a missing
\* entry, an entry that is not a sequence, a row-count mismatch and a checksum
\* mismatch.
C13_ValidatorCompleteness ==
  ValidateReturned =>
    LET bd == files[result.path] IN
    /\ ~Has(bd, "metadata") => Reports("no_metadata", "")
    /\ ~Has(bd, "data") => Reports("no_data_section", "")
    /\ Has(bd, "metadata") =>
         LET md == bd.metadata IN
         /\ (~Has(md, "tables") \/ md.tables = <<>>) => Reports("no_tables", "")
         /\ (Has(md, "tables") /\ Has(bd, "data")) =>
              \A t \in Range(md.tables) :
                /\ ~Has(bd.data, t) => Reports("no_data", t)
                /\ (Has(bd.data, t) /\ ~IsArray(bd.data[t])) => Reports("not_array", t)
                /\ (Has(bd.data, t) /\ IsArray(bd.data[t])) =>
                     /\ (Has(md.recordCount, t) /\ md.recordCount[t] # Len(bd.data[t]))
                          => Reports("record_count", t)
                     /\ (Has(md.checksums, t)
                         /\ md.checksums[t] # Sha256(JSONstringify(Arr(bd.data[t]))))
                          => Reports("checksum", t)

\* C14: validateBackup returns valid = true only if every table listed in
\* metadata.tables has a sequence in the data section whose length equals its
\* recordCount entry and whose digest equals its checksums entry, both entries
\* being present.
C14_ValidatorSoundness ==
  (ValidateReturned /\ result.valid) =>
    LET bd == files[result.path] IN
    /\ Has(bd, "metadata")
    /\ Has(bd, "data")
    /\ Has(bd.metadata, "tables")
    /\ \A t \in Range(bd.metadata.tables) :
         /\ Has(bd.data, t)
         /\ IsArray(bd.data[t])
         /\ Has(bd.metadata.recordCount, t)
         /\ bd.metadata.recordCount[t] = Len(bd.data[t])
         /\ Has(bd.metadata.checksums, t)
         /\ bd.metadata.checksums[t] = Sha256(JSONstringify(Arr(bd.data[t])))

\* The snapshots a build can have written to the path p.
BuiltAt(p) == {d.files[p] : d \in {x \in InitDirs : Has(x.files, p)}}

\* C15: when the validated file is a built snapshot with a single field of a
\* single row of table t changed, validateBackup reports exactly one issue, a
\* checksum mismatch for t.
C15_ChecksumSensitivity ==
  ValidateReturned =>
    \A built \in BuiltAt(result.path) : \A t \in DOMAIN built.data :
      files[result.path] \in RowFieldEdits(built, t)
        => result.issues = <<[issue |-> "checksum", table |-> t]>>


\* --------------------------------------------------------------- C21..C30
UnlinkIssued(out) == {e \in IssuedOps : e.op = "unlink" /\ e.out = out}

\* C21: a failed unlink in the retention pass is absorbed: the file whose
\* unlink failed stays, every other excess file is still deleted (what is
\* left over the limit is no more than the failed deletions), and the
\* enclosing createFullBackup returns the path of the snapshot it wrote.
C21_RetentionErrorsAbsorbed ==
  [][pc = "bk_cleanup"
       => /\ \A e \in UnlinkIssued("ok") : ~Has(files', e.arg)
          /\ \A e \in UnlinkIssued("fail") : Has(files', e.arg)
          /\ Cardinality(DOMAIN files')
               <= maxBackupCount + Cardinality(UnlinkIssued("fail"))
          /\ bk.caller = "top"
               => /\ pc' = "idle"
                  /\ result' = [op |-> "createFullBackup", status |-> "returned",
                                path |-> FileName("full", bk.timestamp)]
          /\ bk.caller = "restore"
               => /\ pc' = "rs_loop"
                  /\ rs'.preRestoreBackupPath = FileName("full", bk.timestamp)]_vars

\* createFullBackup has returned its path after a retention pass in which one
\* unlink failed and a later one succeeded.
C21_Witness ==
  /\ BuildReturned
  /\ result.op = "createFullBackup"
  /\ \E i, j \in 1..Len(oplog) :
       /\ i < j
       /\ oplog[i].op = "unlink" /\ oplog[i].out = "fail"
       /\ oplog[j].op = "unlink" /\ oplog[j].out = "ok"
       /\ Has(files, oplog[i].arg)
       /\ ~Has(files, oplog[j].arg)

\* The restore loop has just restored a table without error, without clearing.
UpsertedWithoutClear(t) ==
  /\ pc = "rs_loop"
  /\ rs.idx <= Len(rs.tablesToRestore)
  /\ rs.tablesToRestore[rs.idx] = t
  /\ ~rs.options.clearBeforeRestore
  /\ rs'.tablesRestored = rs.tablesRestored + 1

C25_NoDataTable ==
  [][(pc = "rs_loop" /\ rs.idx <= Len(rs.tablesToRestore))
       => LET t == rs.tablesToRestore[rs.idx]
              data == rs.backupData.data
          IN (t \notin DOMAIN data \/ data[t] = <<>>)
               => /\ t \in DOMAIN rs'.errors
                  /\ \A e \in IssuedOps : e.op \notin {"delete", "upsert"}
                  /\ store' = store
                  /\ rs'.tablesRestored = rs.tablesRestored
                  /\ rs'.recordsRestored = rs.recordsRestored
                  /\ pc' = "rs_loop"
                  /\ rs'.idx = rs.idx + 1]_vars

\* A restore with clearBeforeRestore has returned; its first table had no
\* snapshot rows, was neither cleared nor written, and the table after it
\* was restored.
C25_Witness ==
  /\ RestoreReported
  /\ result.options.clearBeforeRestore
  /\ Len(result.visited) = 2
  /\ LET t == result.visited[1]
         data == result.backupData.data
     IN /\ (t \notin DOMAIN data \/ data[t] = <<>>)
        /\ Has(result.errors, t)
        /\ CountLogged("delete", t) = 0
        /\ CountLogged("upsert", t) = 0
        /\ store[t] # <<>>
  /\ ~Has(result.errors, result.visited[2])

\* C26: when createFullBackup returns a path, the file of that path is in
\* the backup directory: the retention pass of the same call has not deleted
\* the snapshot just written.
C26_FreshSnapshotSurvives ==
  (BuildReturned /\ result.op = "createFullBackup") => result.path \in DOMAIN files

\* C27: when createFullBackup returns and no unlink of its retention pass
\* failed, the backup directory holds at most maxBackupCount .json files.
C27_RetentionBound ==
  (BuildReturned /\ result.op = "createFullBackup"
     /\ \A i \in 1..Len(oplog) : ~(oplog[i].op = "unlink" /\ oplog[i].out = "fail"))
    => Cardinality(DOMAIN files) <= maxBackupCount

\* The files of the directory that read and parse as a snapshot with metadata.
Listable == {p \in DOMAIN files : ~Has(files[p], "unparseable") /\ Has(files[p], "metadata")}

\* C28: listAvailableBackups returns exactly one entry per file that parses
\* as a snapshot with metadata, newest first, whatever the other files hold.
C28_ListingIsolation ==
  (pc = "idle" /\ result.op = "listAvailableBackups")
    => LET list == result.list IN
       /\ {list[i].path : i \in 1..Len(list)} = Listable
       /\ Len(list) = Cardinality(Listable)
       /\ \A i, j \in 1..Len(list) :
            i < j => list[i].metadata.timestamp.sec >= list[j].metadata.timestamp.sec

\* Both runs of the restore have returned their report.
BothReported == RestoreReported /\ twin.active

\* The store operations of a run that change or read restored tables: all but
\* the log lines written to the log table.
WithoutLogLines(ops) == SelectSeq(ops, LAMBDA e : ~(e.op = "insert" /\ e.arg = LogTable))

LogLines(ops) == Len(ops) - Len(WithoutLogLines(ops))

Consent(answer) == answer \in {"y", "Y"}

\* Operations that change the store or write a snapshot file.
Mutations == {i \in 1..Len(oplog) : oplog[i].op \in {"delete", "upsert", "writeFile", "unlink"}}

\* C29: the restore script calls restoreFromBackup only after validateBackup
\* has run and the operator has answered y to the restore confirmation and,
\* when the validation found issues, to the proceed question before it; once
\* a question is answered otherwise the script has exited with status 1 with
\* no service call made and no delete, upsert or file write issued; and the
\* script exits with status 0 only when the restore reported success.
C29_NothingWithoutConsent ==
  script.pc # "none"
    => /\ script.called
            => /\ script.validated
               /\ Consent(script.confirm)
               /\ ~script.valid => Consent(script.proceed)
       /\ ~script.called
            => calls = 0 /\ Mutations = {} /\ store = [t \in Tables |-> InitRows]
       /\ \A a \in {script.proceed, script.confirm} :
            (a # NoAnswer /\ ~Consent(a))
              => (script.pc = "exited" /\ script.status = 1 /\ ~script.called)
       /\ (script.pc = "exited" /\ script.status = 0)
            => script.called /\ result.op = "restoreFromBackup" /\ result.success
       /\ (script.pc = "exited" /\ script.called /\ ~result.success)
            => script.status = 1

\* The script has exited with status 0 after a restore from a snapshot whose
\* validation found issues, both questions answered y.
C29_Witness ==
  /\ script.pc = "exited"
  /\ script.status = 0
  /\ ~script.valid
  /\ Consent(script.proceed)
  /\ Consent(script.confirm)
  /\ \E t \in Tables : Logged("upsert", t, "ok")

\* The script has exited with status 1 on a refused confirmation, nothing done.
C29_RefusedWitness ==
  /\ script.pc = "exited"
  /\ script.status = 1
  /\ script.validated
  /\ ~Consent(script.confirm)
  /\ script.confirm # NoAnswer
  /\ calls = 0

\* C23: in the bot process the daily createFullBackup and the emergency
\* createCriticalBackup are never in progress at the same time.
C23_NoOverlap ==
  bot.check # "none" => ~(bot.full /\ bot.critical)

\* C30: while the bot is up, every run of the hourly check ends with the
\* next one scheduled, every backup window that opens and closes with the bot
\* up has a daily backup started in it, and no window has two.
C30_DailySchedule ==
  BotUp
    => /\ bot.check = "waiting" => bot.timer \in 0..(CheckPeriodHours * TicksPerHour)
       /\ ~bot.missed
       /\ bot.started <= 1

====
